---- MODULE Spec2Model ----
(***************************************************************************)
(* Model of the DCA order-creation handler                                 *)
(*   contracts/dca/src/handlers/create_dca_order.rs :: create_dca_order    *)
(*                                                                         *)
(* The persisted state is the two storage maps USER_DCA (user -> list of   *)
(* DcaInfo) and USER_CONFIG (user -> config with last_id).  One execute    *)
(* message is handled at a time: create_dca_order runs the whole handler   *)
(* on a message and leaves the message and its Result in `call`; Respond   *)
(* hands the Result back to the host, which ends the transaction.  pc is   *)
(* the position of the creation attempt: Idle between messages, Committed  *)
(* or Rejected when the handler has returned.  SpecSteps runs the same     *)
(* handler statement group by statement group (Start, Validated,           *)
(* FundsProven, IdAllocated) instead of in one step.                       *)
(***************************************************************************)
EXTENDS Integers, Sequences, FiniteSets, TLC

VARIABLES USER_DCA, USER_CONFIG, call, pc

vars == <<USER_DCA, USER_CONFIG, call, pc>>

(***************************************************************************)
(* Bounds of the model.                                                    *)
(***************************************************************************)
\* Largest Uint128 amount a message carries (initial_asset.amount, dca_amount).
MaxAmount == 3

Amounts == 0..MaxAmount

\* AssetInfo is a tagged variant: NativeToken { denom } | Token { contract_addr }.
NativeToken(denom) == [kind |-> "NativeToken", name |-> denom]

Token(contract_addr) == [kind |-> "Token", name |-> contract_addr]

\* The asset descriptors a message may name as initial_asset.info.
SourceInfos == {NativeToken("uusd"), Token("tokenX"), Token("tokenY")}

\* Largest value of UserConfig.last_id: stands for the top of the integer type
\* of last_id, scaled down to one less than the number of source descriptors,
\* so that a user can exhaust the counter and still hold an unused source.
MaxLastId == Cardinality(SourceInfos) - 1

\* The asset descriptors a message may name as target_asset.
TargetInfos == {NativeToken("uusd"), Token("tokenX")}

\* The senders, purchase intervals and first_purchase options of Spec.
Senders == {"alice"}

Intervals == {3600}

FirstPurchases == {<< >>}

\* What the environment may show as proof of funds for a declared amount:
\* one unit less, exactly, or one unit more.
Near(amount) == {x \in 0..(MaxAmount + 1) : x + 1 >= amount /\ x <= amount + 1}

(***************************************************************************)
(* Helpers of the handler.  An Option / Result is a sequence of length 0   *)
(* (None / Err) or 1 (Some / Ok).                                          *)
(***************************************************************************)
\* Mutant of may_load_or_default: the key is ignored, as with one shared item.
may_load_or_default_shared(map, key, default) ==
    IF DOMAIN map # {} THEN map[CHOOSE k \in DOMAIN map : TRUE] ELSE default

\* Map::may_load(..).unwrap_or_default()
may_load_or_default(map, key, default) ==
    IF key \in DOMAIN map THEN map[key] ELSE default

\* Map::save
save(map, key, value) ==
    [k \in (DOMAIN map) \cup {key} |-> IF k = key THEN value ELSE map[k]]

\* Mutant of checked_rem: a zero divisor leaves the dividend as remainder.
checked_rem_zero_divisor(a, b) == IF b = 0 THEN <<a>> ELSE <<a % b>>

\* Uint128::checked_rem: Err(DivideByZeroError) when the divisor is zero.
checked_rem(a, b) == IF b = 0 THEN << >> ELSE <<a % b>>

\* Mutant of checked_add: the sum wraps around.
checked_add_wrapping(a, b) == <<(a + b) % (MaxLastId + 1)>>

\* checked_add on last_id: None when the sum leaves the integer type.
checked_add(a, b) == IF a + b > MaxLastId THEN << >> ELSE <<a + b>>

\* Mutant of AnyOrderWithInfo: compares the whole asset, amount included.
AnyOrderWithInfo_whole_asset(orders, initial_asset) ==
    \E i \in 1..Len(orders) : orders[i].initial_asset = initial_asset

\* orders.iter().any(|order| order.initial_asset.info == initial_asset.info)
AnyOrderWithInfo(orders, initial_asset) ==
    \E i \in 1..Len(orders) : orders[i].initial_asset.info = initial_asset.info

\* Mutant of AdmissionError: the same-asset check runs before the
\* duplicate-source check.
AdmissionError_pair_first(orders, m) ==
    IF m.initial_asset.info = m.target_asset THEN "DuplicateAsset"
    ELSE IF AnyOrderWithInfo(orders, m.initial_asset) THEN "AlreadyDeposited"
    ELSE IF m.dca_amount > m.initial_asset.amount THEN "DepositTooSmall"
    ELSE IF checked_rem(m.initial_asset.amount, m.dca_amount) = << >>
         THEN "Std_DivideByZero"
    ELSE IF checked_rem(m.initial_asset.amount, m.dca_amount)[1] # 0
         THEN "IndivisibleDeposit"
    ELSE "Ok"

\* Mutant of AdmissionError: the negation of is_zero() is dropped.
AdmissionError_inverted_rem(orders, m) ==
    IF AnyOrderWithInfo(orders, m.initial_asset) THEN "AlreadyDeposited"
    ELSE IF m.initial_asset.info = m.target_asset THEN "DuplicateAsset"
    ELSE IF m.dca_amount > m.initial_asset.amount THEN "DepositTooSmall"
    ELSE IF checked_rem(m.initial_asset.amount, m.dca_amount) = << >>
         THEN "Std_DivideByZero"
    ELSE IF checked_rem(m.initial_asset.amount, m.dca_amount)[1] = 0
         THEN "IndivisibleDeposit"
    ELSE "Ok"

\* The four checks before the funds check, in the order of the code; "Ok"
\* when none returns.
\* Mutant of AdmissionError: the same-asset check is left out.
AdmissionError_no_pair_check(orders, m) ==
    IF AnyOrderWithInfo(orders, m.initial_asset) THEN "AlreadyDeposited"
    ELSE IF m.dca_amount > m.initial_asset.amount THEN "DepositTooSmall"
    ELSE IF checked_rem(m.initial_asset.amount, m.dca_amount) = << >>
         THEN "Std_DivideByZero"
    ELSE IF checked_rem(m.initial_asset.amount, m.dca_amount)[1] # 0
         THEN "IndivisibleDeposit"
    ELSE "Ok"

\* Mutant of AdmissionError: the minimum-size check also rejects a purchase
\* size equal to the deposit.
AdmissionError_min_inclusive(orders, m) ==
    IF AnyOrderWithInfo(orders, m.initial_asset) THEN "AlreadyDeposited"
    ELSE IF m.initial_asset.info = m.target_asset THEN "DuplicateAsset"
    ELSE IF m.dca_amount >= m.initial_asset.amount THEN "DepositTooSmall"
    ELSE IF checked_rem(m.initial_asset.amount, m.dca_amount) = << >>
         THEN "Std_DivideByZero"
    ELSE IF checked_rem(m.initial_asset.amount, m.dca_amount)[1] # 0
         THEN "IndivisibleDeposit"
    ELSE "Ok"

AdmissionError(orders, m) ==
    IF AnyOrderWithInfo(orders, m.initial_asset) THEN "AlreadyDeposited"
    ELSE IF m.initial_asset.info = m.target_asset THEN "DuplicateAsset"
    ELSE IF m.dca_amount > m.initial_asset.amount THEN "DepositTooSmall"
    ELSE IF checked_rem(m.initial_asset.amount, m.dca_amount) = << >>
         THEN "Std_DivideByZero"
    ELSE IF checked_rem(m.initial_asset.amount, m.dca_amount)[1] # 0
         THEN "IndivisibleDeposit"
    ELSE "Ok"

\* Mutant of assert_sent_native_token_balance: the attached funds must equal
\* the declared amount.
assert_sent_native_token_balance_exact(initial_asset, funds) ==
    funds = initial_asset.amount

\* Asset::assert_sent_native_token_balance (astroport package): TRUE when the
\* funds attached to the message cover the declared amount.
assert_sent_native_token_balance(initial_asset, funds) ==
    funds >= initial_asset.amount

\* Mutant of FundsError: an allowance of at least the amount is enough.
FundsError_at_least(m) ==
    IF m.initial_asset.info.kind = "NativeToken"
    THEN IF assert_sent_native_token_balance(m.initial_asset, m.funds)
         THEN "Ok"
         ELSE "Std_NativeBalanceMismatch"
    ELSE IF m.allowance < m.initial_asset.amount
         THEN "InvalidTokenDeposit"
         ELSE "Ok"

\* Mutant of FundsError: the error of the native check is mapped to
\* InvalidTokenDeposit.
FundsError_one_kind(m) ==
    IF m.initial_asset.info.kind = "NativeToken"
    THEN IF assert_sent_native_token_balance(m.initial_asset, m.funds)
         THEN "Ok"
         ELSE "InvalidTokenDeposit"
    ELSE IF m.allowance # m.initial_asset.amount
         THEN "InvalidTokenDeposit"
         ELSE "Ok"

\* match &initial_asset.info { NativeToken => ..?, Token => allowance check }
FundsError(m) ==
    IF m.initial_asset.info.kind = "NativeToken"
    THEN IF assert_sent_native_token_balance(m.initial_asset, m.funds)
         THEN "Ok"
         ELSE "Std_NativeBalanceMismatch"
    ELSE IF m.allowance # m.initial_asset.amount
         THEN "InvalidTokenDeposit"
         ELSE "Ok"

\* The closure of USER_CONFIG.update: Ok(config) with last_id + 1, or the
\* OverflowError.
UpdatedConfig(config) ==
    IF checked_add(config.last_id, 1) = << >>
    THEN << >>
    ELSE <<[last_id |-> checked_add(config.last_id, 1)[1]]>>

\* Mutant of AllocatedId: the id is read before the counter is incremented.
AllocatedId_stale(config) == config.last_id

\* let id = USER_CONFIG.update(..)?.last_id: the id of the new order.
AllocatedId(config) == UpdatedConfig(config)[1].last_id

\* The DcaInfo pushed onto the user's orders.
\* Mutant of NewDcaInfo: the caller's first_purchase is ignored.
NewDcaInfo_no_first_purchase(id, m) ==
    [id            |-> id,
     initial_asset |-> m.initial_asset,
     target_asset  |-> m.target_asset,
     interval      |-> m.interval,
     last_purchase |-> 0,
     dca_amount    |-> m.dca_amount]

NewDcaInfo(id, m) ==
    [id            |-> id,
     initial_asset |-> m.initial_asset,
     target_asset  |-> m.target_asset,
     interval      |-> m.interval,
     last_purchase |-> IF m.first_purchase = << >> THEN 0 ELSE m.first_purchase[1],
     dca_amount    |-> m.dca_amount]

\* Mutant of PushOrder: the new order is put in front.
PushOrder_front(orders, order) == <<order>> \o orders

\* orders.push(DcaInfo { .. })
PushOrder(orders, order) == Append(orders, order)

\* The Result of the handler: "Ok" or the error of the first step that fails.
HandlerResult(orders, config, m) ==
    IF AdmissionError(orders, m) # "Ok" THEN AdmissionError(orders, m)
    ELSE IF FundsError(m) # "Ok" THEN FundsError(m)
    ELSE IF UpdatedConfig(config) = << >> THEN "Std_Overflow"
    ELSE "Ok"

\* Mutant of ConfigSaved: the updated config is never stored.
ConfigSaved_never(orders, config, m) == FALSE

\* Mutant of ConfigSaved: the counter is updated before the funds check.
ConfigSaved_before_funds(orders, config, m) ==
    AdmissionError(orders, m) = "Ok" /\ UpdatedConfig(config) # << >>

\* Whether the handler reaches USER_CONFIG.update and the update stores.
ConfigSaved(orders, config, m) == HandlerResult(orders, config, m) = "Ok"

\* Whether the handler reaches USER_DCA.save.
\* Mutant of OrdersSaved: the order sequence is never saved.
OrdersSaved_never(orders, config, m) == FALSE

OrdersSaved(orders, config, m) == HandlerResult(orders, config, m) = "Ok"

(***************************************************************************)
(* The state machine.                                                      *)
(***************************************************************************)
Init ==
    /\ USER_DCA = [u \in {} |-> << >>]
    /\ USER_CONFIG = [u \in {} |-> [last_id |-> 0]]
    /\ call = << >>
    /\ pc = "Idle"

\* The whole handler on message m (sender, order_info, attached funds and the
\* allowance the token contract reports).
create_dca_order(m) ==
    LET orders == may_load_or_default(USER_DCA, m.sender, << >>)
        config == may_load_or_default(USER_CONFIG, m.sender, [last_id |-> 0])
        result == HandlerResult(orders, config, m)
    IN  /\ pc = "Idle"
        /\ call = << >>
        /\ call' = <<[msg |-> m, result |-> result]>>
        /\ pc' = IF result = "Ok" THEN "Committed" ELSE "Rejected"
        /\ USER_CONFIG' =
             IF ConfigSaved(orders, config, m)
             THEN save(USER_CONFIG, m.sender, UpdatedConfig(config)[1])
             ELSE USER_CONFIG
        /\ USER_DCA' =
             IF OrdersSaved(orders, config, m)
             THEN save(USER_DCA, m.sender,
                       PushOrder(orders, NewDcaInfo(AllocatedId(config), m)))
             ELSE USER_DCA

\* The Result goes back to the host and the transaction ends.
Respond ==
    /\ pc \in {"Committed", "Rejected"}
    /\ call # << >>
    /\ call' = << >>
    /\ pc' = "Idle"
    /\ UNCHANGED <<USER_DCA, USER_CONFIG>>

\* The messages over given senders, amounts, per-purchase amounts, intervals
\* and first_purchase options; the proof of funds is near the declared amount.
MessagesOver(senders, amounts, dca_amounts, intervals, first_purchases) ==
    UNION {
      UNION {
        [sender         : senders,
         initial_asset  : {[info |-> info, amount |-> amount]},
         target_asset   : TargetInfos,
         interval       : intervals,
         dca_amount     : dca_amounts,
         first_purchase : first_purchases,
         funds          : IF info.kind = "NativeToken" THEN Near(amount) ELSE {0},
         allowance      : IF info.kind = "Token" THEN Near(amount) ELSE {0}]
        : amount \in amounts }
      : info \in SourceInfos }

\* The messages of Spec.
Messages == MessagesOver(Senders, Amounts, Amounts, Intervals, FirstPurchases)

Next ==
    \/ \E m \in Messages : create_dca_order(m)
    \/ Respond

Spec == Init /\ [][Next]_vars

(***************************************************************************)
(* SpecUsers: the same handler with several senders, whose messages are    *)
(* handled one after the other.  The deposit is fixed and the per-purchase *)
(* amount either divides it or exceeds it.                                 *)
(***************************************************************************)
Users == {"alice", "bob"}

FixedAmounts == {2}

FixedDcaAmounts == {1, 3}

MessagesUsers ==
    MessagesOver(Users, FixedAmounts, FixedDcaAmounts, Intervals, FirstPurchases)

NextUsers ==
    \/ \E m \in MessagesUsers : create_dca_order(m)
    \/ Respond

SpecUsers == Init /\ [][NextUsers]_vars

(***************************************************************************)
(* SpecFields: one sender, with the interval and the first_purchase option *)
(* of the message varied.                                                  *)
(***************************************************************************)
FieldIntervals == {0, 3600}

FieldFirstPurchases == {<< >>, <<7>>}

MessagesFields ==
    MessagesOver(Senders, FixedAmounts, FixedDcaAmounts,
                 FieldIntervals, FieldFirstPurchases)

NextFields ==
    \/ \E m \in MessagesFields : create_dca_order(m)
    \/ Respond

SpecFields == Init /\ [][NextFields]_vars

(***************************************************************************)
(* SpecSteps: the handler taken one statement group at a time, in the      *)
(* order of the code.  call holds the message, the Result so far and the   *)
(* handler's locals: `orders` (loaded first) and `id`.  The handler has no *)
(* loop and no suspension point, so every step that is enabled is taken:   *)
(* weak fairness of the four steps.                                        *)
(***************************************************************************)
\* Lines 45-62: the message is destructured and the sender's orders loaded.
Receive(m) ==
    /\ pc = "Idle"
    /\ call = << >>
    /\ call' = <<[msg    |-> m,
                  result |-> "Pending",
                  orders |-> may_load_or_default(USER_DCA, m.sender, << >>),
                  id     |-> 0]>>
    /\ pc' = "Start"
    /\ UNCHANGED <<USER_DCA, USER_CONFIG>>

\* Mutant of Validate: a violated rule sends the attempt back to its start.
Validate_retry ==
    /\ pc = "Start"
    /\ pc' = IF AdmissionError(call[1].orders, call[1].msg) = "Ok"
             THEN "Validated" ELSE "Start"
    /\ UNCHANGED <<USER_DCA, USER_CONFIG, call>>

\* Lines 64-89: the four checks.
Validate ==
    /\ pc = "Start"
    /\ IF AdmissionError(call[1].orders, call[1].msg) = "Ok"
       THEN /\ pc' = "Validated"
            /\ call' = call
       ELSE /\ pc' = "Rejected"
            /\ call' = <<[call[1] EXCEPT
                            !.result = AdmissionError(call[1].orders, call[1].msg)]>>
    /\ UNCHANGED <<USER_DCA, USER_CONFIG>>

\* Mutant of ProveFunds: the counter is updated before the funds are checked.
ProveFunds_counter_first ==
    /\ pc = "Validated"
    /\ USER_CONFIG' =
         LET config == may_load_or_default(USER_CONFIG, call[1].msg.sender,
                                           [last_id |-> 0])
         IN  IF UpdatedConfig(config) = << >> THEN USER_CONFIG
             ELSE save(USER_CONFIG, call[1].msg.sender, UpdatedConfig(config)[1])
    /\ IF FundsError(call[1].msg) = "Ok"
       THEN /\ pc' = "FundsProven"
            /\ call' = call
       ELSE /\ pc' = "Rejected"
            /\ call' = <<[call[1] EXCEPT !.result = FundsError(call[1].msg)]>>
    /\ UNCHANGED USER_DCA

\* Lines 91-102: the funds check.
ProveFunds ==
    /\ pc = "Validated"
    /\ IF FundsError(call[1].msg) = "Ok"
       THEN /\ pc' = "FundsProven"
            /\ call' = call
       ELSE /\ pc' = "Rejected"
            /\ call' = <<[call[1] EXCEPT !.result = FundsError(call[1].msg)]>>
    /\ UNCHANGED <<USER_DCA, USER_CONFIG>>

\* Lines 104-115: USER_CONFIG.update and the new id.
AllocateId ==
    LET config == may_load_or_default(USER_CONFIG, call[1].msg.sender,
                                      [last_id |-> 0])
    IN  /\ pc = "FundsProven"
        /\ IF UpdatedConfig(config) = << >>
           THEN /\ pc' = "Rejected"
                /\ call' = <<[call[1] EXCEPT !.result = "Std_Overflow"]>>
                /\ USER_CONFIG' = USER_CONFIG
           ELSE /\ pc' = "IdAllocated"
                /\ call' = <<[call[1] EXCEPT !.id = AllocatedId(config)]>>
                /\ USER_CONFIG' =
                     save(USER_CONFIG, call[1].msg.sender, UpdatedConfig(config)[1])
        /\ UNCHANGED USER_DCA

\* Lines 117-135: the order is pushed, the orders are saved, Ok is returned.
Commit ==
    /\ pc = "IdAllocated"
    /\ USER_DCA' =
         save(USER_DCA, call[1].msg.sender,
              PushOrder(call[1].orders, NewDcaInfo(call[1].id, call[1].msg)))
    /\ call' = <<[call[1] EXCEPT !.result = "Ok"]>>
    /\ pc' = "Committed"
    /\ UNCHANGED USER_CONFIG

MessagesSteps ==
    MessagesOver(Senders, FixedAmounts, FixedDcaAmounts, Intervals, FirstPurchases)

NextSteps ==
    \/ \E m \in MessagesSteps : Receive(m)
    \/ Validate
    \/ ProveFunds
    \/ AllocateId
    \/ Commit
    \/ Respond

SpecSteps ==
    /\ Init
    /\ [][NextSteps]_vars
    /\ WF_vars(Validate)
    /\ WF_vars(ProveFunds)
    /\ WF_vars(AllocateId)
    /\ WF_vars(Commit)

(***************************************************************************)
(* Vocabulary of the properties.  A step of create_dca_order is a step     *)
(* from call = << >> to call # << >>; in it the primed call holds the      *)
(* message and its Result, and the unprimed maps are the stored state      *)
(* before the request.                                                     *)
(***************************************************************************)
Done == call # << >>

Handled == call = << >> /\ call' # << >>

OrdersOf(map, user) == IF user \in DOMAIN map THEN map[user] ELSE << >>

LastIdOf(map, user) == IF user \in DOMAIN map THEN map[user].last_id ELSE 0

\* The admission rules as the specification words them.
DuplicateSource(orders, m) ==
    \E i \in 1..Len(orders) : orders[i].initial_asset.info = m.initial_asset.info

SameAsset(m) == m.initial_asset.info = m.target_asset

TooSmall(m) == m.dca_amount > m.initial_asset.amount

NonZeroRemainder(m) ==
    /\ m.dca_amount > 0
    /\ m.initial_asset.amount % m.dca_amount # 0

PassesAdmissionRules(orders, m) ==
    /\ ~DuplicateSource(orders, m)
    /\ ~SameAsset(m)
    /\ ~TooSmall(m)
    /\ m.dca_amount > 0
    /\ m.initial_asset.amount % m.dca_amount = 0

IsNative(m) == m.initial_asset.info.kind = "NativeToken"

\* The funds proof: the native funds assertion for a native currency, an
\* allowance equal to the declared amount for a contract token.
FundsProofHolds(m) ==
    IF m.initial_asset.info.kind = "NativeToken"
    THEN assert_sent_native_token_balance(m.initial_asset, m.funds)
    ELSE m.allowance = m.initial_asset.amount

IsToken(m) == m.initial_asset.info.kind = "Token"

(***************************************************************************)
(* C1  Uniqueness: in every reachable state no two orders of one user's    *)
(* stored sequence have the same source descriptor, and a request whose    *)
(* source descriptor equals that of an order the sender already has stored *)
(* is rejected with AlreadyDeposited (the spec's AlreadyExists).           *)
(***************************************************************************)
C1_UniqueSources ==
    /\ [](\A u \in DOMAIN USER_DCA :
            \A i, j \in 1..Len(USER_DCA[u]) :
                i # j => USER_DCA[u][i].initial_asset.info
                           # USER_DCA[u][j].initial_asset.info)
    /\ [][Handled /\ DuplicateSource(OrdersOf(USER_DCA, call'[1].msg.sender),
                                     call'[1].msg)
            => call'[1].result = "AlreadyDeposited"]_vars

\* A sender holding two orders repeats one of their sources and is rejected.
C1_Witness ==
    /\ Done
    /\ call[1].result = "AlreadyDeposited"
    /\ Len(OrdersOf(USER_DCA, call[1].msg.sender)) = 2

(***************************************************************************)
(* C2  Id monotonicity: a successful creation by a user with no config     *)
(* stores an order with id 1 and sets last_id to 1; every later successful *)
(* creation stores an order whose id is one greater than the id of the     *)
(* user's previous successful creation (the last stored order), and        *)
(* last_id becomes that id.                                                *)
(***************************************************************************)
C2_IdMonotonic ==
    [][Handled /\ call'[1].result = "Ok"
         => LET u   == call'[1].msg.sender
                old == OrdersOf(USER_DCA, u)
                new == OrdersOf(USER_DCA', u)
            IN  /\ new # << >>
                /\ new[Len(new)].id = IF old = << >> THEN 1
                                      ELSE old[Len(old)].id + 1
                /\ LastIdOf(USER_CONFIG', u) = new[Len(new)].id
                /\ (u \notin DOMAIN USER_CONFIG => new[Len(new)].id = 1)]_vars

\* The second successful creation of a user got id 2.
C2_Witness ==
    /\ Done
    /\ call[1].result = "Ok"
    /\ LET orders == OrdersOf(USER_DCA, call[1].msg.sender)
       IN  /\ Len(orders) = 2
           /\ orders[1].id = 1
           /\ orders[2].id = 2
    /\ LastIdOf(USER_CONFIG, call[1].msg.sender) = 2

(***************************************************************************)
(* C3  No partial writes: a request that is rejected, for whatever reason, *)
(* leaves both storage maps exactly as they were before the request.       *)
(***************************************************************************)
C3_NoPartialWrites ==
    [][Handled /\ call'[1].result # "Ok"
         => USER_DCA' = USER_DCA /\ USER_CONFIG' = USER_CONFIG]_vars

\* A request that passed the admission rules and failed the funds proof, by a
\* sender who already has an order and a counter.
C3_Witness ==
    /\ Done
    /\ call[1].result = "InvalidTokenDeposit"
    /\ Len(OrdersOf(USER_DCA, call[1].msg.sender)) = 1
    /\ LastIdOf(USER_CONFIG, call[1].msg.sender) = 1

(***************************************************************************)
(* C4  Exact allowance: a token-funded request that passes the four        *)
(* admission rules while last_id is below the maximum is admitted if and   *)
(* only if the allowance equals the declared amount; any other allowance   *)
(* (one unit more, one unit less) is rejected with InvalidTokenDeposit     *)
(* (the spec's InvalidDeposit).                                            *)
(***************************************************************************)
C4_ExactAllowance ==
    [][/\ Handled
       /\ IsToken(call'[1].msg)
       /\ PassesAdmissionRules(OrdersOf(USER_DCA, call'[1].msg.sender), call'[1].msg)
       /\ LastIdOf(USER_CONFIG, call'[1].msg.sender) < MaxLastId
       => /\ (call'[1].result = "Ok"
                <=> call'[1].msg.allowance = call'[1].msg.initial_asset.amount)
          /\ (call'[1].msg.allowance # call'[1].msg.initial_asset.amount
                => call'[1].result = "InvalidTokenDeposit")]_vars

\* An allowance one unit above the declared amount was rejected.
C4_Witness ==
    /\ Done
    /\ IsToken(call[1].msg)
    /\ call[1].msg.allowance = call[1].msg.initial_asset.amount + 1
    /\ call[1].result = "InvalidTokenDeposit"

(***************************************************************************)
(* C5  As claimed: a request with dca_amount = 0 that passes the           *)
(* duplicate-source and same-asset rules is rejected with                  *)
(* IndivisibleDeposit.                                                     *)
(***************************************************************************)
C5_ZeroDcaIsIndivisible ==
    [][/\ Handled
       /\ call'[1].msg.dca_amount = 0
       /\ ~DuplicateSource(OrdersOf(USER_DCA, call'[1].msg.sender), call'[1].msg)
       /\ ~SameAsset(call'[1].msg)
       => call'[1].result = "IndivisibleDeposit"]_vars

(***************************************************************************)
(* C5  As amended: a request with dca_amount = 0 that passes the           *)
(* duplicate-source and same-asset rules is rejected with the standard     *)
(* divide-by-zero error that checked_rem reports, a kind of its own and    *)
(* not IndivisibleDeposit; it is a returned error and nothing is stored.   *)
(***************************************************************************)
C5_ZeroDcaIsDivideByZero ==
    [][/\ Handled
       /\ call'[1].msg.dca_amount = 0
       /\ ~DuplicateSource(OrdersOf(USER_DCA, call'[1].msg.sender), call'[1].msg)
       /\ ~SameAsset(call'[1].msg)
       => /\ call'[1].result = "Std_DivideByZero"
          /\ USER_DCA' = USER_DCA
          /\ USER_CONFIG' = USER_CONFIG]_vars

\* A request with dca_amount = 0 and a positive deposit was handled.
C5_Witness ==
    /\ Done
    /\ call[1].msg.dca_amount = 0
    /\ call[1].msg.initial_asset.amount > 0
    /\ call[1].result = "Std_DivideByZero"

(***************************************************************************)
(* C6  Native funds: a native-currency request that passes the four        *)
(* admission rules while last_id is below the maximum succeeds whenever    *)
(* the attached funds are at least the declared amount; attaching more     *)
(* than the declared amount does not reject it.                            *)
(***************************************************************************)
C6_NativeAtLeast ==
    [][/\ Handled
       /\ IsNative(call'[1].msg)
       /\ PassesAdmissionRules(OrdersOf(USER_DCA, call'[1].msg.sender), call'[1].msg)
       /\ LastIdOf(USER_CONFIG, call'[1].msg.sender) < MaxLastId
       /\ call'[1].msg.funds >= call'[1].msg.initial_asset.amount
       => call'[1].result = "Ok"]_vars

\* A native order with one unit more attached than declared was admitted.
C6_Witness ==
    /\ Done
    /\ IsNative(call[1].msg)
    /\ call[1].msg.funds = call[1].msg.initial_asset.amount + 1
    /\ call[1].result = "Ok"

(***************************************************************************)
(* C7  As claimed: a native-currency request that passes the admission     *)
(* rules with attached funds one unit below the declared amount is         *)
(* rejected with the kind of a token allowance mismatch,                   *)
(* InvalidTokenDeposit (the spec's InvalidDeposit).                        *)
(***************************************************************************)
C7_OneFundsErrorKind ==
    [][/\ Handled
       /\ IsNative(call'[1].msg)
       /\ PassesAdmissionRules(OrdersOf(USER_DCA, call'[1].msg.sender), call'[1].msg)
       /\ call'[1].msg.funds + 1 = call'[1].msg.initial_asset.amount
       => call'[1].result = "InvalidTokenDeposit"]_vars

(***************************************************************************)
(* C7  As amended: a failed funds proof surfaces in one of two kinds.  A   *)
(* token request that passes the admission rules with an allowance other   *)
(* than the declared amount is rejected with InvalidTokenDeposit; a native *)
(* request is never rejected with InvalidTokenDeposit: what the native     *)
(* funds assertion reports is passed on as it is, a standard error.        *)
(***************************************************************************)
C7_TwoFundsErrorKinds ==
    [][/\ Handled
       /\ PassesAdmissionRules(OrdersOf(USER_DCA, call'[1].msg.sender), call'[1].msg)
       => /\ (IsToken(call'[1].msg)
                /\ call'[1].msg.allowance # call'[1].msg.initial_asset.amount
                => call'[1].result = "InvalidTokenDeposit")
          /\ (IsNative(call'[1].msg)
                => call'[1].result
                     \in {"Ok", "Std_NativeBalanceMismatch", "Std_Overflow"})]_vars

\* A native order with one unit less attached than declared was rejected
\* with the standard error of the native funds assertion.
C7_Witness ==
    /\ Done
    /\ IsNative(call[1].msg)
    /\ call[1].msg.funds + 1 = call[1].msg.initial_asset.amount
    /\ call[1].result = "Std_NativeBalanceMismatch"

(***************************************************************************)
(* C8  Rule precedence: the rejection kind is that of the first violated   *)
(* rule in the order duplicate source (AlreadyDeposited), same asset       *)
(* (DuplicateAsset), minimum size (DepositTooSmall), divisibility          *)
(* (IndivisibleDeposit for a non-zero remainder), whatever later rules the *)
(* request violates as well.                                               *)
(***************************************************************************)
C8_RulePrecedence ==
    [][Handled
         => LET m      == call'[1].msg
                orders == OrdersOf(USER_DCA, m.sender)
                result == call'[1].result
            IN  /\ DuplicateSource(orders, m) => result = "AlreadyDeposited"
                /\ ~DuplicateSource(orders, m) /\ SameAsset(m)
                     => result = "DuplicateAsset"
                /\ ~DuplicateSource(orders, m) /\ ~SameAsset(m) /\ TooSmall(m)
                     => result = "DepositTooSmall"
                /\ ~DuplicateSource(orders, m) /\ ~SameAsset(m) /\ ~TooSmall(m)
                     /\ NonZeroRemainder(m)
                     => result = "IndivisibleDeposit"]_vars

\* A request whose source is its target and also the source of a stored order
\* was rejected as a duplicate source.
C8_Witness ==
    /\ Done
    /\ SameAsset(call[1].msg)
    /\ DuplicateSource(OrdersOf(USER_DCA, call[1].msg.sender), call[1].msg)
    /\ call[1].result = "AlreadyDeposited"

(***************************************************************************)
(* C9  Counter overflow: a request that passes the admission rules and the *)
(* funds proof while last_id is at its maximum fails with the overflow     *)
(* error (the spec's CounterOverflow); last_id never exceeds the maximum   *)
(* and no step makes any user's last_id smaller.                           *)
(***************************************************************************)
C9_CounterOverflow ==
    /\ [][/\ Handled
          /\ PassesAdmissionRules(OrdersOf(USER_DCA, call'[1].msg.sender), call'[1].msg)
          /\ FundsError(call'[1].msg) = "Ok"
          /\ LastIdOf(USER_CONFIG, call'[1].msg.sender) = MaxLastId
          => call'[1].result = "Std_Overflow"]_vars
    /\ [][\A u \in DOMAIN USER_CONFIG :
             /\ u \in DOMAIN USER_CONFIG'
             /\ USER_CONFIG'[u].last_id >= USER_CONFIG[u].last_id]_vars
    /\ [](\A u \in DOMAIN USER_CONFIG : USER_CONFIG[u].last_id \in 1..MaxLastId)

\* A valid request of a user whose counter is exhausted failed with overflow.
C9_Witness ==
    /\ Done
    /\ call[1].result = "Std_Overflow"
    /\ LastIdOf(USER_CONFIG, call[1].msg.sender) = MaxLastId

(***************************************************************************)
(* C10  Divisibility invariant: every stored order has dca_amount > 0,     *)
(* dca_amount <= its source amount and source amount mod dca_amount = 0;   *)
(* a request with 0 < dca_amount <= amount and a non-zero remainder (the   *)
(* spec's amount 100 and dca_amount 7; here 3 and 2) that passes the       *)
(* duplicate-source and same-asset rules is rejected with                  *)
(* IndivisibleDeposit.                                                     *)
(***************************************************************************)
C10_Divisibility ==
    /\ [](\A u \in DOMAIN USER_DCA :
            \A i \in 1..Len(USER_DCA[u]) :
                /\ USER_DCA[u][i].dca_amount > 0
                /\ USER_DCA[u][i].dca_amount <= USER_DCA[u][i].initial_asset.amount
                /\ USER_DCA[u][i].initial_asset.amount
                     % USER_DCA[u][i].dca_amount = 0)
    /\ [][/\ Handled
          /\ call'[1].msg.initial_asset.amount = 3
          /\ call'[1].msg.dca_amount = 2
          /\ ~DuplicateSource(OrdersOf(USER_DCA, call'[1].msg.sender), call'[1].msg)
          /\ ~SameAsset(call'[1].msg)
          => call'[1].result = "IndivisibleDeposit"]_vars

\* The request with amount 3 and dca_amount 2 was rejected as indivisible,
\* while the sender holds an admitted order.
C10_Witness ==
    /\ Done
    /\ call[1].msg.initial_asset.amount = 3
    /\ call[1].msg.dca_amount = 2
    /\ call[1].result = "IndivisibleDeposit"
    /\ Len(OrdersOf(USER_DCA, call[1].msg.sender)) >= 1

(***************************************************************************)
(* C11  Id uniqueness under serialized requests: with several users whose  *)
(* requests are handled one after the other, no two orders of one user's   *)
(* stored sequence have the same id, and a successful creation issues an   *)
(* id that is above the user's counter before the request and is the id of *)
(* none of the user's stored orders, so no id is issued twice.             *)
(***************************************************************************)
C11_IdsUnique ==
    /\ [](\A u \in DOMAIN USER_DCA :
            \A i, j \in 1..Len(USER_DCA[u]) :
                i # j => USER_DCA[u][i].id # USER_DCA[u][j].id)
    /\ [][Handled /\ call'[1].result = "Ok"
            => LET u   == call'[1].msg.sender
                   old == OrdersOf(USER_DCA, u)
                   new == OrdersOf(USER_DCA', u)
               IN  /\ new # << >>
                   /\ new[Len(new)].id > LastIdOf(USER_CONFIG, u)
                   /\ \A i \in 1..Len(old) : old[i].id # new[Len(new)].id]_vars

\* Both users hold two orders each, with ids 1 and 2.
C11_Witness ==
    /\ DOMAIN USER_DCA = Users
    /\ \A u \in Users :
          /\ Len(USER_DCA[u]) = 2
          /\ USER_DCA[u][1].id = 1
          /\ USER_DCA[u][2].id = 2

(***************************************************************************)
(* C12  Every order in every user's stored sequence has a strictly         *)
(* positive interval: a request with interval = 0 never results in a       *)
(* stored order.                                                           *)
(***************************************************************************)
C12_PositiveInterval ==
    \A u \in DOMAIN USER_DCA :
        \A i \in 1..Len(USER_DCA[u]) : USER_DCA[u][i].interval > 0

(***************************************************************************)
(* C13  Append-only commit: after a successful creation the sender's       *)
(* stored sequence is the sequence stored before the request with exactly  *)
(* one order added at the end; every earlier order is unchanged and keeps  *)
(* its position.                                                           *)
(***************************************************************************)
C13_AppendOnly ==
    [][Handled /\ call'[1].result = "Ok"
         => LET u   == call'[1].msg.sender
                old == OrdersOf(USER_DCA, u)
                new == OrdersOf(USER_DCA', u)
            IN  /\ Len(new) = Len(old) + 1
                /\ \A i \in 1..Len(old) : new[i] = old[i]
                /\ new[Len(new)].initial_asset = call'[1].msg.initial_asset]_vars

\* A second order was added behind the first one.
C13_Witness ==
    /\ Done
    /\ call[1].result = "Ok"
    /\ LET orders == OrdersOf(USER_DCA, call[1].msg.sender)
       IN  /\ Len(orders) = 2
           /\ orders[2].initial_asset = call[1].msg.initial_asset
           /\ orders[1].initial_asset.info # call[1].msg.initial_asset.info

(***************************************************************************)
(* C14  Cross-user independence: a request of user A, admitted or          *)
(* rejected, leaves the stored sequence and the counter of every other     *)
(* user as they were, and whether it is admitted is decided by the         *)
(* message and A's own orders and counter alone (A may use a source that   *)
(* another user already uses).                                             *)
(***************************************************************************)
C14_CrossUserIndependence ==
    [][Handled
         => LET m == call'[1].msg
            IN  /\ \A b \in Users \ {m.sender} :
                      /\ (b \in DOMAIN USER_DCA') = (b \in DOMAIN USER_DCA)
                      /\ (b \in DOMAIN USER_CONFIG') = (b \in DOMAIN USER_CONFIG)
                      /\ OrdersOf(USER_DCA', b) = OrdersOf(USER_DCA, b)
                      /\ LastIdOf(USER_CONFIG', b) = LastIdOf(USER_CONFIG, b)
                /\ call'[1].result = "Ok"
                     <=> /\ PassesAdmissionRules(OrdersOf(USER_DCA, m.sender), m)
                         /\ FundsProofHolds(m)
                         /\ LastIdOf(USER_CONFIG, m.sender) < MaxLastId]_vars

\* A request was admitted whose source another user already uses, and that
\* user's orders are in place.
C14_Witness ==
    /\ Done
    /\ call[1].result = "Ok"
    /\ \E b \in Users \ {call[1].msg.sender} :
          /\ DuplicateSource(OrdersOf(USER_DCA, b), call[1].msg)
          /\ Len(OrdersOf(USER_DCA, b)) = 2

(***************************************************************************)
(* C15  Step ordering within one creation attempt: the attempt passes      *)
(* Start, Validated, FundsProven, IdAllocated and Committed in this order; *)
(* the counter is written only in the step from FundsProven to IdAllocated *)
(* and the order sequence only in the last step, from IdAllocated to       *)
(* Committed.  So a rejected request that violates an admission rule, also *)
(* when it lacks funds too, has the kind of an admission rule, and the     *)
(* counter is never written for a request whose funds proof fails.         *)
(***************************************************************************)
C15_StepOrdering ==
    /\ [][pc' # pc =>
            /\ pc' = "Validated"   => pc = "Start"
            /\ pc' = "FundsProven" => pc = "Validated"
            /\ pc' = "IdAllocated" => pc = "FundsProven"
            /\ pc' = "Committed"   => pc = "IdAllocated"]_vars
    /\ [][USER_CONFIG' # USER_CONFIG
            => /\ pc = "FundsProven" /\ pc' = "IdAllocated"
               /\ FundsProofHolds(call[1].msg)
               /\ PassesAdmissionRules(call[1].orders, call[1].msg)]_vars
    /\ [][USER_DCA' # USER_DCA
            => /\ pc = "IdAllocated" /\ pc' = "Committed"
               /\ USER_CONFIG' = USER_CONFIG]_vars
    /\ [](pc = "Rejected"
            /\ ~PassesAdmissionRules(OrdersOf(USER_DCA, call[1].msg.sender),
                                     call[1].msg)
            => call[1].result \in {"AlreadyDeposited", "DuplicateAsset",
                                   "DepositTooSmall", "IndivisibleDeposit",
                                   "Std_DivideByZero"})

\* A request that violates the minimum-size rule and lacks funds as well was
\* rejected with DepositTooSmall, by a sender whose counter is at 1.
C15_Witness ==
    /\ pc = "Rejected"
    /\ TooSmall(call[1].msg)
    /\ ~FundsProofHolds(call[1].msg)
    /\ call[1].result = "DepositTooSmall"
    /\ LastIdOf(USER_CONFIG, call[1].msg.sender) = 1

(***************************************************************************)
(* C17  Every creation attempt terminates: an attempt that is at Start,    *)
(* Validated, FundsProven or IdAllocated eventually is at Committed or     *)
(* Rejected.                                                               *)
(***************************************************************************)
C17_Terminates ==
    (pc \in {"Start", "Validated", "FundsProven", "IdAllocated"})
        ~> (pc \in {"Committed", "Rejected"})

\* An attempt went through all steps: its second order is committed.
C17_Witness ==
    /\ pc = "Committed"
    /\ call[1].result = "Ok"
    /\ call[1].id = 2

(***************************************************************************)
(* C16  Same-asset invariant: in every reachable state every stored order  *)
(* has a target asset descriptor different from its source asset           *)
(* descriptor, and a request whose source descriptor equals its target     *)
(* descriptor, with no duplicate source, is rejected with DuplicateAsset   *)
(* (the spec's InvalidPair).                                               *)
(***************************************************************************)
C16_SameAsset ==
    /\ [](\A u \in DOMAIN USER_DCA : \A i \in 1..Len(USER_DCA[u]) :
            USER_DCA[u][i].target_asset # USER_DCA[u][i].initial_asset.info)
    /\ [][Handled /\ SameAsset(call'[1].msg)
            /\ ~DuplicateSource(OrdersOf(USER_DCA, call'[1].msg.sender),
                                call'[1].msg)
            => /\ call'[1].result = "DuplicateAsset"
               /\ UNCHANGED <<USER_DCA, USER_CONFIG>>]_vars

\* A request to buy tokenX with tokenX, from a sender who has an order with
\* another source stored, was rejected with DuplicateAsset.
C16_Witness ==
    /\ Done
    /\ SameAsset(call[1].msg)
    /\ call[1].msg.initial_asset.info = Token("tokenX")
    /\ call[1].result = "DuplicateAsset"
    /\ Len(OrdersOf(USER_DCA, call[1].msg.sender)) = 1

(***************************************************************************)
(* C18  Counter and order set agree: in every reachable state, for every   *)
(* user, last_id equals the number of orders in the user's stored sequence *)
(* and the i-th stored order has id = i; no id was issued without a stored *)
(* order, and no stored order has an id above last_id.                     *)
(***************************************************************************)
C18_CounterMatchesOrders ==
    /\ DOMAIN USER_CONFIG = DOMAIN USER_DCA
    /\ \A u \in DOMAIN USER_DCA :
         /\ USER_CONFIG[u].last_id = Len(USER_DCA[u])
         /\ \A i \in 1..Len(USER_DCA[u]) : USER_DCA[u][i].id = i

\* A user has two orders stored and a counter of 2.
C18_Witness ==
    \E u \in DOMAIN USER_DCA :
        /\ Len(USER_DCA[u]) = 2
        /\ USER_CONFIG[u].last_id = 2
        /\ USER_DCA[u][2].id = 2

C20_StoredOrderCarriesRequest ==
    [][Handled /\ call'[1].result = "Ok" =>
        LET m      == call'[1].msg
            orders == OrdersOf(USER_DCA', m.sender)
            order  == orders[Len(orders)]
        IN  /\ Len(orders) = Len(OrdersOf(USER_DCA, m.sender)) + 1
            /\ order.initial_asset = m.initial_asset
            /\ order.target_asset = m.target_asset
            /\ order.interval = m.interval
            /\ order.dca_amount = m.dca_amount
            /\ order.id = LastIdOf(USER_CONFIG', m.sender)
            /\ order.id = LastIdOf(USER_CONFIG, m.sender) + 1
            /\ order.last_purchase = IF m.first_purchase = << >> THEN 0
                                     ELSE m.first_purchase[1]]_vars

\* A successful request that gave first_purchase = 7: the order stored last
\* has last_purchase = 7.
C20_Witness ==
    /\ Done
    /\ call[1].result = "Ok"
    /\ call[1].msg.first_purchase = <<7>>
    /\ LET orders == OrdersOf(USER_DCA, call[1].msg.sender)
       IN  orders[Len(orders)].last_purchase = 7

====
